---------------------------- MODULE Spec2Model ----------------------------
(***************************************************************************)
(* Model of loggerric's file writer: LogToFile (src/loggerric/             *)
(* _log_to_file.py) and the gate in front of it,                           *)
(* ThreadSafeLogger._maybe_forward_file (src/loggerric/                    *)
(* _threadsafe_logger.py).                                                 *)
(*                                                                         *)
(* Caller threads run start_logging, stop_logging, enable, disable and     *)
(* log calls; every read or write of a class attribute is one step, since  *)
(* the interpreter may switch threads between any two of them.  Worker     *)
(* threads run _writer_loop.                                               *)
(*                                                                         *)
(* Three parts stand on their own, each with its own specification:        *)
(* set_dump_location (SpecConfig), the pure function escape_ansi           *)
(* (SpecStrip) and the per-logger level sets of ThreadSafeLogger           *)
(* (SpecLoggers).                                                          *)
(***************************************************************************)
EXTENDS Integers, Sequences, FiniteSets, TLC

\* ------------------------------------------------------------------ bounds
NumCallers == 2        \* caller threads
MaxCalls == 3          \* calls (start, stop, log, enable, disable) in one behaviour
NumInputLevels == 1    \* levels that log / enable / disable are called with
NumDirs == 2           \* directories set_dump_location is called with
NumNames == 2          \* file names set_dump_location is called with
NumChars == 4          \* distinct characters of the texts given to escape_ansi
MaxTextLen == 4        \* length of those texts
NumLoggers == 2        \* ThreadSafeLogger instances
NumArgSets == 1        \* set objects the callers pass as enabled_levels
NumArgLevels == 2      \* levels in the sets and calls the callers make

\* ------------------------------------------------------ program constants
\* Python's None: no thread, no handle, the queue's sentinel, a free lock.
None == 0

\* queue.Queue() is built without maxsize; 0 means the queue never fills.
QueueMaxsize == 0

\* The escape character \x1B that opens every sequence of the pattern.
ESC == 27

\* class LogToFileLevel
LevelNames ==
    << "INFO", "WARN", "ERROR", "DEBUG", "PRETTY_PRINT", "TABLE",
       "PROGRESS_BAR", "TIMER", "PROMPT" >>

LogToFileLevel == { LevelNames[i] : i \in 1..Len(LevelNames) }

\* The attributes the class body of LogToFile binds.  A name with two
\* leading underscores is stored under its mangled name, so the queue bound
\* as __writer_queue is the attribute _LogToFile__writer_queue.
ClassAttrs ==
    { "_active_levels", "_should_dump", "_dump_path",
      "_LogToFile__writer_queue", "_writer_thread", "_writer_running",
      "_writer_file", "_writer_lock" }

\* Attribute lookup cls.<name>: FALSE is an AttributeError.
Resolves(name) == name \in ClassAttrs

\* The lookup as it would go if the use sites wrote the name the class body
\* stores.
QueueResolves_stored == Resolves("_LogToFile__writer_queue")

\* What every use site writes: cls._writer_queue.
QueueResolves == Resolves("_writer_queue")

\* mapping.get(level, LogToFileLevel.INFO) of _maybe_forward_file
mapping(level) ==
    IF level \in {"INFO", "WARN", "ERROR", "DEBUG"} THEN level ELSE "INFO"

\* Directory and file names: one token each of a path, which is a sequence
\* of tokens with "/" for os.sep.
DirNames == << "logs", "tmp", "var", "opt" >>

BaseNames == << "run1", "run2", "run3", "run4" >>

Dirs == { << "/", DirNames[i] >> : i \in 1..NumDirs }

FileNames == { << BaseNames[i] >> : i \in 1..NumNames }

\* os.getenv('HOMEDRIVE') and os.getenv('HOMEPATH') of the default path
HomeDrive == << "C:" >>

HomePath == << "Users", "/", "me" >>

\* Characters by code point: ESC, 'A', '[', 'm', '0', ' ', 'x'.
AnsiChars == << ESC, 65, 91, 109, 48, 32, 120 >>

Alphabet == { AnsiChars[i] : i \in 1..NumChars }

Texts == UNION { [1..n -> Alphabet] : n \in 0..MaxTextLen }

\* class Level of _threadsafe_logger.py
Level == { LevelNames[i] : i \in 1..4 }

ArgLevels == { LevelNames[i] : i \in 1..NumArgLevels }

Loggers == 1..NumLoggers

\* Set objects by identity: those the callers own and pass to __init__, and
\* one slot per logger for the set the logger itself builds.
ArgSets == 1..NumArgSets

OwnSet(g) == NumArgSets + g

SetObjects == 1..(NumArgSets + NumLoggers)

Callers == 1..NumCallers
Workers == 1..MaxCalls
Handles == 1..MaxCalls
Lines == 1..MaxCalls
InputLevels == { LevelNames[i] : i \in 1..NumInputLevels }

VARIABLES
    active_levels,   \* LogToFile._active_levels
    should_dump,     \* LogToFile._should_dump
    writer_queue,    \* the Queue object (attribute _LogToFile__writer_queue)
    writer_thread,   \* LogToFile._writer_thread: a worker or None
    writer_running,  \* LogToFile._writer_running
    writer_file,     \* LogToFile._writer_file: a handle or None
    writer_lock,     \* LogToFile._writer_lock: None, caller c, or -w for worker w
    open_handles,    \* handles opened at line 176 and not closed
    file,            \* the dump file: the lines appended, in order
    atexit_hooks,    \* number of atexit registrations of _stop_writer
    pc,              \* position of each caller thread
    cur,             \* per caller: line and level of its log call, t of _stop_writer
    exc,             \* per caller: exception its last call raised, or "none"
    wpc,             \* position of each worker thread
    witem,           \* per worker: the item it dequeued
    hist,            \* history: counters and what happened to each line
    dump_path,       \* LogToFile._dump_path
    existing,        \* the directories that exist (os.path.exists)
    conf,            \* history of the last set_dump_location call
    ansi,            \* a text and what escape_ansi made of it
    heap,            \* the set objects that hold loggers' enabled levels
    loggers          \* per ThreadSafeLogger: its _enabled_levels reference

vars ==
    << active_levels, should_dump, writer_queue, writer_thread, writer_running,
       writer_file, writer_lock, open_handles, file, atexit_hooks, pc, cur, exc,
       wpc, witem, hist, dump_path, existing, conf, ansi, heap, loggers >>

\* What the writer's operations never touch.
configVars == << dump_path, existing, conf >>

loggerVars == << heap, loggers >>

extVars == << configVars, ansi, loggerVars >>

shared ==
    << active_levels, should_dump, writer_queue, writer_thread, writer_running,
       writer_file, writer_lock, open_handles, file, atexit_hooks >>

workerVars == << wpc, witem >>


\* ----------------------------------------------------------------- helpers
\* threading.Thread.is_alive(): started and not yet finished.
is_alive(w) == wpc[w] \in {"check", "get", "write", "fb_lock", "fb_write", "close"}

\* queue.Queue.full(): never when maxsize is 0.
Full(q) == QueueMaxsize > 0 /\ Len(q) >= QueueMaxsize

\* A gate that lets every level through.
LevelActive_any(level) == TRUE

\* `ltf_level in LogToFile._active_levels`, the first operand of the gate.
LevelActive(level) == level \in active_levels

\* `LogToFile._should_dump`, the second operand of the gate.
PersistOn == should_dump

InSeq(x, q) == \E i \in 1..Len(q) : q[i] = x

OthersIdle(c) == \A d \in Callers \ {c} : pc[d] = "idle"

NoCycle == [st |-> "none", owner |-> 0, mark |-> 0, handle |-> None, lines |-> << >>]

\* History of the start / log / stop scenario of one caller: `open` from the
\* return of a start_logging call that spawned a worker while every other
\* caller was idle, `stopping` while that caller's stop_logging runs,
\* `stopped` when it has returned.  A call begun by any other caller ends it.
CycleOnBegin(c, op) ==
    LET cy == hist.cycle IN
    IF cy.st = "none" THEN cy
    ELSE IF cy.st = "stopped" \/ c # cy.owner THEN NoCycle
    ELSE IF op = "stop" /\ cy.st = "open" THEN [cy EXCEPT !.st = "stopping"]
    ELSE IF op = "log" /\ cy.st = "open" THEN cy
    ELSE NoCycle

\* os.path.join of two paths: an absolute second path discards the first,
\* a separator is put between them unless the first already ends with one.
Join(a, b) ==
    IF b # << >> /\ Head(b) = "/" THEN b
    ELSE IF a = << >> \/ a[Len(a)] = "/" THEN a \o b
    ELSE a \o << "/" >> \o b

\* The class attribute's initial value:
\* os.path.join(HOMEDRIVE, HOMEPATH, 'loggerric_log_dump.log')
DefaultDumpPath == Join(Join(HomeDrive, HomePath), << "loggerric_log_dump", ".log" >>)

NoAnsi == [stage |-> "none", text |-> << >>, once |-> << >>, twice |-> << >>]

NoHeap == [o \in SetObjects |-> {}]

NoLogger == [ref |-> None, given |-> {}, by_default |-> FALSE, acted |-> FALSE]

NoLoggers == [g \in Loggers |-> NoLogger]

NoConf ==
    [called |-> FALSE, caller |-> 0, directory |-> << >>, file_name |-> << >>,
     existed |-> FALSE, before |-> << >>, raised |-> FALSE]

\* An existence test that every directory passes.
PathExists_any(full_directory) == TRUE

\* os.path.exists(full_directory)
PathExists(full_directory) == full_directory \in existing

Return(c) == pc' = [pc EXCEPT ![c] = "idle"]

Goto(c, where) == pc' = [pc EXCEPT ![c] = where]

Raise(c, e) == exc' = [exc EXCEPT ![c] = e]

InitWriter ==
    /\ active_levels = LogToFileLevel
    /\ should_dump = FALSE
    /\ writer_queue = << >>
    /\ writer_thread = None
    /\ writer_running = FALSE
    /\ writer_file = None
    /\ writer_lock = None
    /\ open_handles = {}
    /\ file = << >>
    /\ atexit_hooks = 0
    /\ pc = [c \in Callers |-> "idle"]
    /\ cur = [c \in Callers |-> [line |-> 0, level |-> "INFO", t |-> None]]
    /\ exc = [c \in Callers |-> "none"]
    /\ wpc = [w \in Workers |-> "unborn"]
    /\ witem = [w \in Workers |-> None]
    /\ hist = [n_calls |-> 0, n_lines |-> 0, n_stops |-> 0, n_opened |-> 0,
               owner |-> [l \in Lines |-> 0],
               accepted |-> {}, rejected |-> {}, saw_running |-> {},
               line_exc |-> [l \in Lines |-> "none"],
               io_failed |-> FALSE,
               cycle |-> NoCycle,
               stop_since_open |-> FALSE,
               pushes |-> 0, pops |-> 0, stale |-> FALSE,
               born |-> [w \in Workers |-> 0]]
    /\ dump_path = DefaultDumpPath

\* No configuration call, no text, no logger yet.
InitConfigIdle ==
    /\ existing = {}
    /\ conf = NoConf

InitAnsiIdle == ansi = NoAnsi

InitLoggersIdle ==
    /\ heap = NoHeap
    /\ loggers = NoLoggers

Init ==
    /\ InitWriter
    /\ InitConfigIdle
    /\ InitAnsiIdle
    /\ InitLoggersIdle

\* ------------------------------------------------------------ start_logging
\* line 87: cls._should_dump = True
start_logging(c) ==
    /\ pc[c] = "idle"
    /\ hist.n_calls < MaxCalls
    /\ should_dump' = TRUE
    /\ Goto(c, "sl_check")
    /\ exc' = [exc EXCEPT ![c] = "none"]
    /\ hist' = [hist EXCEPT !.n_calls = @ + 1, !.cycle = CycleOnBegin(c, "start")]
    /\ UNCHANGED << active_levels, writer_queue, writer_thread, writer_running,
                    writer_file, writer_lock, open_handles, file, atexit_hooks,
                    cur, wpc, witem >>
    /\ UNCHANGED extVars

\* line 89: if not cls._writer_running: cls._start_writer()
start_logging_check(c) ==
    /\ pc[c] = "sl_check"
    /\ IF ~writer_running THEN Goto(c, "sw_check") ELSE Return(c)
    /\ UNCHANGED << shared, cur, exc, workerVars, hist >>
    /\ UNCHANGED extVars

\* line 163: if cls._writer_running: return
start_writer_check(c) ==
    /\ pc[c] = "sw_check"
    /\ IF writer_running THEN Return(c) ELSE Goto(c, "sw_open")
    /\ UNCHANGED << shared, cur, exc, workerVars, hist >>
    /\ UNCHANGED extVars

\* lines 166-178: make the directory, open the file for append; a failure
\* of either is swallowed and leaves no cached handle.
start_writer_open(c) ==
    /\ pc[c] = "sw_open"
    /\ \E ok \in BOOLEAN :
          IF ok
          THEN /\ writer_file' = hist.n_opened + 1
               /\ open_handles' = open_handles \cup {hist.n_opened + 1}
               /\ hist' = [hist EXCEPT !.n_opened = @ + 1, !.stop_since_open = FALSE]
          ELSE /\ writer_file' = None
               /\ open_handles' = open_handles
               /\ hist' = [hist EXCEPT !.io_failed = TRUE]
    /\ Goto(c, "sw_run")
    /\ UNCHANGED << active_levels, should_dump, writer_queue, writer_thread,
                    writer_running, writer_lock, file, atexit_hooks, cur, exc,
                    workerVars >>
    /\ UNCHANGED extVars

\* line 180: cls._writer_running = True
start_writer_run(c) ==
    /\ pc[c] = "sw_run"
    /\ writer_running' = TRUE
    /\ Goto(c, "sw_create")
    /\ UNCHANGED << active_levels, should_dump, writer_queue, writer_thread,
                    writer_file, writer_lock, open_handles, file, atexit_hooks,
                    cur, exc, workerVars, hist >>
    /\ UNCHANGED extVars

\* line 220: cls._writer_thread = threading.Thread(target=_writer_loop, ...)
start_writer_create(c) ==
    /\ pc[c] = "sw_create"
    /\ LET w == CHOOSE v \in Workers :
                   wpc[v] = "unborn" /\ \A u \in Workers : wpc[u] = "unborn" => v <= u
       IN /\ wpc' = [wpc EXCEPT ![w] = "created"]
          /\ writer_thread' = w
    /\ Goto(c, "sw_start")
    /\ UNCHANGED << active_levels, should_dump, writer_queue, writer_running,
                    writer_file, writer_lock, open_handles, file, atexit_hooks,
                    cur, exc, witem, hist >>
    /\ UNCHANGED extVars

\* lines 221-224: cls._writer_thread.start(); atexit.register(cls._stop_writer).
\* The attribute is read again: it is None after a concurrent _stop_writer
\* (AttributeError), or a thread another caller has started (RuntimeError).
start_writer_start(c) ==
    /\ pc[c] = "sw_start"
    /\ IF writer_thread = None
       THEN /\ Raise(c, "AttributeError")
            /\ UNCHANGED << wpc, atexit_hooks >>
            /\ hist' = [hist EXCEPT !.cycle = NoCycle]
       ELSE IF wpc[writer_thread] = "created"
       THEN /\ wpc' = [wpc EXCEPT ![writer_thread] = "check"]
            /\ atexit_hooks' = atexit_hooks + 1
            /\ exc' = exc
            /\ hist' = [hist EXCEPT !.cycle =
                          IF OthersIdle(c)
                          THEN [st |-> "open", owner |-> c, mark |-> Len(file),
                                handle |-> writer_file, lines |-> << >>]
                          ELSE NoCycle,
                                    !.born[writer_thread] = hist.pushes]
       ELSE /\ Raise(c, "RuntimeError")
            /\ UNCHANGED << wpc, atexit_hooks >>
            /\ hist' = [hist EXCEPT !.cycle = NoCycle]
    /\ Return(c)
    /\ UNCHANGED << active_levels, should_dump, writer_queue, writer_thread,
                    writer_running, writer_file, writer_lock, open_handles, file,
                    cur, witem >>
    /\ UNCHANGED extVars

\* ------------------------------------------------------------- stop_logging
\* line 99: cls._should_dump = False
stop_logging(c) ==
    /\ pc[c] = "idle"
    /\ hist.n_calls < MaxCalls
    /\ should_dump' = FALSE
    /\ Goto(c, "st_check")
    /\ exc' = [exc EXCEPT ![c] = "none"]
    /\ hist' = [hist EXCEPT !.n_calls = @ + 1, !.n_stops = @ + 1,
                            !.cycle = CycleOnBegin(c, "stop"),
                            !.stop_since_open = TRUE]
    /\ UNCHANGED << active_levels, writer_queue, writer_thread, writer_running,
                    writer_file, writer_lock, open_handles, file, atexit_hooks,
                    cur, wpc, witem >>
    /\ UNCHANGED extVars

\* line 229: if not cls._writer_running: return
stop_writer_check(c) ==
    /\ pc[c] = "st_check"
    /\ IF ~writer_running
       THEN /\ Return(c)
            /\ hist' = [hist EXCEPT !.cycle =
                          IF @.owner = c /\ @.st = "stopping" THEN NoCycle ELSE @]
       ELSE /\ Goto(c, "st_flag")
            /\ hist' = hist
    /\ UNCHANGED << shared, cur, exc, workerVars >>
    /\ UNCHANGED extVars

\* line 232: cls._writer_running = False
stop_writer_flag(c) ==
    /\ pc[c] = "st_flag"
    /\ writer_running' = FALSE
    /\ Goto(c, "st_sentinel")
    /\ UNCHANGED << active_levels, should_dump, writer_queue, writer_thread,
                    writer_file, writer_lock, open_handles, file, atexit_hooks,
                    cur, exc, workerVars, hist >>
    /\ UNCHANGED extVars

\* lines 235-238: try: cls._writer_queue.put_nowait(None); except Exception: pass
stop_writer_sentinel(c) ==
    /\ pc[c] = "st_sentinel"
    /\ IF QueueResolves /\ ~Full(writer_queue)
       THEN /\ writer_queue' = Append(writer_queue, None)
            /\ hist' = [hist EXCEPT !.pushes = @ + 1]
       ELSE /\ writer_queue' = writer_queue
            /\ hist' = hist
    /\ Goto(c, "st_read")
    /\ UNCHANGED << active_levels, should_dump, writer_thread, writer_running,
                    writer_file, writer_lock, open_handles, file, atexit_hooks,
                    cur, exc, workerVars >>
    /\ UNCHANGED extVars

\* lines 241-242: t = cls._writer_thread; if t is not None and t.is_alive()
stop_writer_read(c) ==
    /\ pc[c] = "st_read"
    /\ cur' = [cur EXCEPT ![c].t = writer_thread]
    /\ IF writer_thread # None /\ is_alive(writer_thread)
       THEN Goto(c, "st_join")
       ELSE Goto(c, "st_clear")
    /\ UNCHANGED << shared, exc, workerVars, hist >>
    /\ UNCHANGED extVars

\* line 243: t.join(timeout) returns when t has finished or when the timeout
\* has run out, whichever is first.
stop_writer_join(c) ==
    /\ pc[c] = "st_join"
    /\ \E timed_out \in BOOLEAN : timed_out \/ ~is_alive(cur[c].t)
    /\ Goto(c, "st_clear")
    /\ UNCHANGED << shared, cur, exc, workerVars, hist >>
    /\ UNCHANGED extVars

\* line 246: cls._writer_thread = None
stop_writer_clear(c) ==
    /\ pc[c] = "st_clear"
    /\ writer_thread' = None
    /\ Return(c)
    /\ cur' = [cur EXCEPT ![c].t = None]
    /\ hist' = [hist EXCEPT !.cycle =
                  IF @.owner = c /\ @.st = "stopping"
                  THEN [@ EXCEPT !.st = "stopped"]
                  ELSE @]
    /\ UNCHANGED << active_levels, should_dump, writer_queue, writer_running,
                    writer_file, writer_lock, open_handles, file, atexit_hooks,
                    exc, workerVars >>
    /\ UNCHANGED extVars

\* --------------------------------------------------------- enable / disable
\* line 118: cls._active_levels.update(levels)
enable(c) ==
    /\ pc[c] = "idle"
    /\ hist.n_calls < MaxCalls
    /\ \E levels \in SUBSET InputLevels :
          /\ levels # {}
          /\ active_levels' = active_levels \cup levels
    /\ hist' = [hist EXCEPT !.n_calls = @ + 1, !.cycle = CycleOnBegin(c, "enable")]
    /\ UNCHANGED << should_dump, writer_queue, writer_thread, writer_running,
                    writer_file, writer_lock, open_handles, file, atexit_hooks,
                    pc, cur, exc, workerVars >>
    /\ UNCHANGED extVars

\* line 133: cls._active_levels.difference_update(levels)
disable(c) ==
    /\ pc[c] = "idle"
    /\ hist.n_calls < MaxCalls
    /\ \E levels \in SUBSET InputLevels :
          /\ levels # {}
          /\ active_levels' = active_levels \ levels
    /\ hist' = [hist EXCEPT !.n_calls = @ + 1, !.cycle = CycleOnBegin(c, "disable")]
    /\ UNCHANGED << should_dump, writer_queue, writer_thread, writer_running,
                    writer_file, writer_lock, open_handles, file, atexit_hooks,
                    pc, cur, exc, workerVars >>
    /\ UNCHANGED extVars

\* ---------------------------------------------- _maybe_forward_file and _log
\* A line is reported as lost to an exception.
LineRaised(c, e) ==
    /\ Raise(c, e)
    /\ Return(c)

\* _threadsafe_logger.py line 79, first operand: a logger that forwards to
\* the file maps its level and tests it against the active levels.
maybe_forward_file(c) ==
    /\ pc[c] = "idle"
    /\ hist.n_calls < MaxCalls
    /\ \E level \in InputLevels :
          LET l == hist.n_lines + 1
              ltf_level == mapping(level)
          IN /\ cur' = [cur EXCEPT ![c].line = l, ![c].level = ltf_level]
             /\ IF LevelActive(ltf_level) THEN Goto(c, "gate_dump") ELSE Return(c)
             /\ hist' = [hist EXCEPT
                           !.n_calls = @ + 1,
                           !.n_lines = l,
                           !.owner[l] = c,
                           !.rejected =
                               IF ltf_level \in active_levels THEN @ ELSE @ \cup {l},
                           !.cycle = CycleOnBegin(c, "log")]
    /\ exc' = [exc EXCEPT ![c] = "none"]
    /\ UNCHANGED << shared, workerVars >>
    /\ UNCHANGED extVars

\* _threadsafe_logger.py lines 79-81, second operand: `and
\* LogToFile._should_dump`, then LogToFile._log(escape_ansi(text)).
maybe_forward_dump(c) ==
    /\ pc[c] = "gate_dump"
    /\ IF PersistOn THEN Goto(c, "log_check") ELSE Return(c)
    /\ hist' = [hist EXCEPT
                  !.rejected = IF should_dump THEN @ ELSE @ \cup {cur[c].line},
                  !.accepted = IF PersistOn THEN @ \cup {cur[c].line} ELSE @,
                  !.cycle =
                      IF PersistOn /\ @.st = "open" /\ @.owner = c
                      THEN [@ EXCEPT !.lines = Append(@, cur[c].line)]
                      ELSE @]
    /\ UNCHANGED << shared, cur, exc, workerVars >>
    /\ UNCHANGED extVars

\* _log_to_file.py line 147: if cls._writer_running
log_check(c) ==
    /\ pc[c] = "log_check"
    /\ IF writer_running
       THEN /\ Goto(c, "log_put")
            /\ hist' = [hist EXCEPT !.saw_running = @ \cup {cur[c].line}]
       ELSE /\ Goto(c, "log_lock")
            /\ hist' = hist
    /\ UNCHANGED << shared, cur, exc, workerVars >>
    /\ UNCHANGED extVars

\* lines 148-153: cls._writer_queue.put_nowait(line); return; only queue.Full
\* is caught, and falls through to the synchronous write.
log_put(c) ==
    /\ pc[c] = "log_put"
    /\ IF ~QueueResolves
       THEN /\ LineRaised(c, "AttributeError")
            /\ hist' = [hist EXCEPT !.line_exc[cur[c].line] = "AttributeError"]
            /\ writer_queue' = writer_queue
       ELSE IF ~Full(writer_queue)
       THEN /\ writer_queue' = Append(writer_queue, cur[c].line)
            /\ Return(c)
            /\ UNCHANGED << exc, hist >>
       ELSE /\ Goto(c, "log_lock")
            /\ UNCHANGED << writer_queue, exc, hist >>
    /\ UNCHANGED << active_levels, should_dump, writer_thread, writer_running,
                    writer_file, writer_lock, open_handles, file, atexit_hooks,
                    cur, workerVars >>
    /\ UNCHANGED extVars

\* line 156: with cls._writer_lock
log_lock(c) ==
    /\ pc[c] = "log_lock"
    /\ writer_lock = None
    /\ writer_lock' = c
    /\ Goto(c, "log_open")
    /\ UNCHANGED << active_levels, should_dump, writer_queue, writer_thread,
                    writer_running, writer_file, open_handles, file,
                    atexit_hooks, cur, exc, workerVars, hist >>
    /\ UNCHANGED extVars

\* line 157: with open(cls._dump_path, 'a+t', ...) as file; an OSError leaves
\* the with blocks (the lock is released) and reaches the caller.
log_open(c) ==
    /\ pc[c] = "log_open"
    /\ \E ok \in BOOLEAN :
          IF ok
          THEN /\ Goto(c, "log_write")
               /\ UNCHANGED << writer_lock, exc, hist >>
          ELSE /\ writer_lock' = None
               /\ LineRaised(c, "OSError")
               /\ hist' = [hist EXCEPT !.line_exc[cur[c].line] = "OSError",
                                       !.io_failed = TRUE]
    /\ UNCHANGED << active_levels, should_dump, writer_queue, writer_thread,
                    writer_running, writer_file, open_handles, file,
                    atexit_hooks, cur, workerVars >>
    /\ UNCHANGED extVars

\* line 158: file.write(line), then the file is closed and the lock released.
log_write(c) ==
    /\ pc[c] = "log_write"
    /\ \E ok \in BOOLEAN :
          IF ok
          THEN /\ file' = Append(file, cur[c].line)
               /\ Return(c)
               /\ UNCHANGED << exc, hist >>
          ELSE /\ file' = file
               /\ LineRaised(c, "OSError")
               /\ hist' = [hist EXCEPT !.line_exc[cur[c].line] = "OSError",
                                       !.io_failed = TRUE]
    /\ writer_lock' = None
    /\ UNCHANGED << active_levels, should_dump, writer_queue, writer_thread,
                    writer_running, writer_file, open_handles, atexit_hooks,
                    cur, workerVars >>
    /\ UNCHANGED extVars

\* ------------------------------------------------------------- _writer_loop
\* One step of worker w, by its position:
\*   check     line 183, the loop condition.  `or` evaluates the queue only
\*             when the flag is false, and that lookup is outside the try:
\*             an AttributeError there ends the thread before lines 212-218.
\*   get       line 186, get(timeout=0.2); queue.Empty continues the loop,
\*             any other exception is caught at line 208 and the loop goes
\*             on after time.sleep(0.1), which touches no shared state.
\*   write     lines 194-200, write and flush on the cached handle, errors
\*             swallowed; line 207 task_done.
\*   fb_lock,
\*   fb_write  lines 201-205, the append under the lock when there is no
\*             cached handle; an error reaches lines 208-210.
\*   close     lines 212-218, close the handle and clear the reference.
writer_loop(w) ==
    /\ is_alive(w)
    /\ CASE wpc[w] = "check" ->
              /\ wpc' = [wpc EXCEPT ![w] =
                           IF writer_running THEN "get"
                           ELSE IF ~QueueResolves THEN "dead"
                           ELSE IF writer_queue = << >> THEN "close"
                           ELSE "get"]
              /\ UNCHANGED << shared, witem, hist >>
         [] wpc[w] = "get" ->
              IF ~QueueResolves
              THEN /\ wpc' = [wpc EXCEPT ![w] = "check"]
                   /\ UNCHANGED << shared, witem, hist >>
              ELSE IF writer_queue = << >>
              THEN /\ wpc' = [wpc EXCEPT ![w] = "check"]
                   /\ UNCHANGED << shared, witem, hist >>
              ELSE /\ writer_queue' = Tail(writer_queue)
                   /\ witem' = [witem EXCEPT ![w] = Head(writer_queue)]
                   /\ wpc' = [wpc EXCEPT ![w] =
                                IF Head(writer_queue) = None THEN "close"
                                ELSE IF writer_file # None THEN "write"
                                ELSE "fb_lock"]
                   /\ hist' = IF Head(writer_queue) # None THEN hist
                              ELSE [hist EXCEPT !.pops = @ + 1,
                                                !.stale = @ \/ hist.pops < hist.born[w]]
                   /\ UNCHANGED << active_levels, should_dump, writer_thread,
                                   writer_running, writer_file, writer_lock,
                                   open_handles, file, atexit_hooks >>
         [] wpc[w] = "write" ->
              /\ \E ok \in BOOLEAN :
                    IF ok /\ writer_file \in open_handles
                    THEN /\ file' = Append(file, witem[w])
                         /\ hist' = hist
                    ELSE /\ file' = file
                         /\ hist' = [hist EXCEPT !.io_failed = TRUE]
              /\ wpc' = [wpc EXCEPT ![w] = "check"]
              /\ UNCHANGED << active_levels, should_dump, writer_queue,
                              writer_thread, writer_running, writer_file,
                              writer_lock, open_handles, atexit_hooks, witem >>
         [] wpc[w] = "fb_lock" ->
              /\ writer_lock = None
              /\ writer_lock' = -w
              /\ wpc' = [wpc EXCEPT ![w] = "fb_write"]
              /\ UNCHANGED << active_levels, should_dump, writer_queue,
                              writer_thread, writer_running, writer_file,
                              open_handles, file, atexit_hooks, witem, hist >>
         [] wpc[w] = "fb_write" ->
              /\ \E ok \in BOOLEAN :
                    IF ok
                    THEN /\ file' = Append(file, witem[w])
                         /\ wpc' = [wpc EXCEPT ![w] = "check"]
                         /\ hist' = hist
                    ELSE /\ file' = file
                         /\ wpc' = [wpc EXCEPT ![w] = "check"]
                         /\ hist' = [hist EXCEPT !.io_failed = TRUE]
              /\ writer_lock' = None
              /\ UNCHANGED << active_levels, should_dump, writer_queue,
                              writer_thread, writer_running, writer_file,
                              open_handles, atexit_hooks, witem >>
         [] wpc[w] = "close" ->
              /\ open_handles' = open_handles \ {writer_file}
              /\ writer_file' = None
              /\ wpc' = [wpc EXCEPT ![w] = "dead"]
              /\ UNCHANGED << active_levels, should_dump, writer_queue,
                              writer_thread, writer_running, writer_lock, file,
                              atexit_hooks, witem, hist >>
    /\ UNCHANGED << pc, cur, exc >>
    /\ UNCHANGED extVars

\* -------------------------------------------------------------- escape_ansi
\* The character classes of the pattern
\* \x1B(?:[@-Z\\-_]|\[[0-?]*[ -/]*[@-~]), by code point.
FeByte(ch) == ch \in 64..90 \/ ch \in 92..95

ParamByte(ch) == ch \in 48..63

InterByte(ch) == ch \in 32..47

FinalByte(ch) == ch \in 64..126

\* Where a greedy run of one class that starts at i ends.
RECURSIVE SkipParam(_, _)
SkipParam(s, i) == IF i <= Len(s) /\ ParamByte(s[i]) THEN SkipParam(s, i + 1) ELSE i

RECURSIVE SkipInter(_, _)
SkipInter(s, i) == IF i <= Len(s) /\ InterByte(s[i]) THEN SkipInter(s, i + 1) ELSE i

\* The index after the match of the pattern that starts at i, 0 for none.
\* The classes are disjoint, so backtracking finds no other match.
MatchEnd(s, i) ==
    IF i + 1 > Len(s) \/ s[i] # ESC THEN 0
    ELSE IF FeByte(s[i + 1]) THEN i + 2
    ELSE IF s[i + 1] # 91 THEN 0
    ELSE LET k == SkipInter(s, SkipParam(s, i + 2))
         IN IF k <= Len(s) /\ FinalByte(s[k]) THEN k + 1 ELSE 0

\* regex.sub('', text) from position i: one pass from left to right that
\* drops every match and resumes after it.
RECURSIVE SubFrom(_, _)
SubFrom(s, i) ==
    IF i > Len(s) THEN << >>
    ELSE IF MatchEnd(s, i) # 0 THEN SubFrom(s, MatchEnd(s, i))
    ELSE << s[i] >> \o SubFrom(s, i + 1)

escape_ansi(text) == SubFrom(text, 1)

\* regex.search(text) is not None
HasEscape(text) == \E i \in 1..Len(text) : MatchEnd(text, i) # 0

\* escape_ansi applied to a text, and then to its own result.
escape_text ==
    /\ ansi.stage = "text"
    /\ ansi' = [ansi EXCEPT !.stage = "once", !.once = escape_ansi(ansi.text)]
    /\ UNCHANGED << shared, pc, cur, exc, workerVars, hist, configVars, loggerVars >>

escape_again ==
    /\ ansi.stage = "once"
    /\ ansi' = [ansi EXCEPT !.stage = "twice", !.twice = escape_ansi(ansi.once)]
    /\ UNCHANGED << shared, pc, cur, exc, workerVars, hist, configVars, loggerVars >>

\* --------------------------------------------------------- ThreadSafeLogger
\* is_enabled: level in self._enabled_levels, in a given heap.
IsEnabledIn(hp, lg, g, level) == level \in hp[lg[g].ref]

is_enabled(g, level) == IsEnabledIn(heap, loggers, g, level)

\* `x or y` for a set x that may be None: an empty set is falsy too.
Truthy(arg) == arg # None /\ heap[arg] # {}

Acted(lg, g) == [h \in Loggers |-> [lg[h] EXCEPT !.acted = (h = g)]]

\* __init__ with enabled_levels None or a set object of the caller:
\* self._enabled_levels = enabled_levels or {INFO, WARN, ERROR, DEBUG}.
\* A truthy argument is stored as it is, the same object; otherwise the
\* logger gets a new set of the four levels.
logger_init(g) ==
    /\ loggers[g].ref = None
    /\ \E enabled_levels \in ArgSets \cup {None} :
          /\ IF Truthy(enabled_levels)
                THEN /\ heap' = heap
                     /\ loggers' = Acted([loggers EXCEPT ![g].ref = enabled_levels,
                                                         ![g].given = heap[enabled_levels]], g)
                ELSE /\ heap' = [heap EXCEPT ![OwnSet(g)] = Level]
                     /\ loggers' = Acted([loggers EXCEPT
                                            ![g].ref = OwnSet(g),
                                            ![g].given = IF enabled_levels = None THEN {}
                                                         ELSE heap[enabled_levels],
                                            ![g].by_default = (enabled_levels = None)], g)
    /\ UNCHANGED << shared, pc, cur, exc, workerVars, hist, configVars, ansi >>

\* enable(*levels): self._enabled_levels.update(levels)
logger_enable(g) ==
    /\ loggers[g].ref # None
    /\ \E levels \in SUBSET ArgLevels \ {{}} :
          heap' = [heap EXCEPT ![loggers[g].ref] = @ \cup levels]
    /\ loggers' = Acted(loggers, g)
    /\ UNCHANGED << shared, pc, cur, exc, workerVars, hist, configVars, ansi >>

\* disable(*levels): self._enabled_levels.discard(l) for each l
logger_disable(g) ==
    /\ loggers[g].ref # None
    /\ \E levels \in SUBSET ArgLevels \ {{}} :
          heap' = [heap EXCEPT ![loggers[g].ref] = @ \ levels]
    /\ loggers' = Acted(loggers, g)
    /\ UNCHANGED << shared, pc, cur, exc, workerVars, hist, configVars, ansi >>

\* set_levels(levels): self._enabled_levels = set(levels), a new set object
set_levels(g) ==
    /\ loggers[g].ref # None
    /\ \E levels \in SUBSET ArgLevels :
          heap' = [heap EXCEPT ![OwnSet(g)] = levels]
    /\ loggers' = Acted([loggers EXCEPT ![g].ref = OwnSet(g)], g)
    /\ UNCHANGED << shared, pc, cur, exc, workerVars, hist, configVars, ansi >>

\* -------------------------------------------------------- set_dump_location
\* The whole call: the existence test, the assert on it and, when it passes,
\* the assignment of the joined path.  A failed assert raises AssertionError
\* to the caller before anything is assigned.
set_dump_location(c) ==
    /\ pc[c] = "idle"
    /\ \E full_directory \in Dirs, file_name \in FileNames :
          LET path_exists == PathExists(full_directory)
          IN /\ IF path_exists
                   THEN /\ dump_path' = Join(full_directory, file_name \o << ".log" >>)
                        /\ Raise(c, "none")
                   ELSE /\ dump_path' = dump_path
                        /\ Raise(c, "AssertionError")
             /\ conf' = [called |-> TRUE, caller |-> c,
                         directory |-> full_directory, file_name |-> file_name,
                         existed |-> full_directory \in existing,
                         before |-> dump_path, raised |-> ~path_exists]
    /\ UNCHANGED << active_levels, should_dump, writer_queue, writer_thread,
                    writer_running, writer_file, writer_lock, open_handles,
                    file, atexit_hooks, pc, cur, workerVars, hist >>
    /\ UNCHANGED << existing, ansi, loggerVars >>

\* ------------------------------------------------------------ specification
Next ==
    \/ \E c \in Callers : start_logging(c)
    \/ \E c \in Callers : start_logging_check(c)
    \/ \E c \in Callers : start_writer_check(c)
    \/ \E c \in Callers : start_writer_open(c)
    \/ \E c \in Callers : start_writer_run(c)
    \/ \E c \in Callers : start_writer_create(c)
    \/ \E c \in Callers : start_writer_start(c)
    \/ \E c \in Callers : stop_logging(c)
    \/ \E c \in Callers : stop_writer_check(c)
    \/ \E c \in Callers : stop_writer_flag(c)
    \/ \E c \in Callers : stop_writer_sentinel(c)
    \/ \E c \in Callers : stop_writer_read(c)
    \/ \E c \in Callers : stop_writer_join(c)
    \/ \E c \in Callers : stop_writer_clear(c)
    \/ \E c \in Callers : enable(c)
    \/ \E c \in Callers : disable(c)
    \/ \E c \in Callers : maybe_forward_file(c)
    \/ \E c \in Callers : maybe_forward_dump(c)
    \/ \E c \in Callers : log_check(c)
    \/ \E c \in Callers : log_put(c)
    \/ \E c \in Callers : log_lock(c)
    \/ \E c \in Callers : log_open(c)
    \/ \E c \in Callers : log_write(c)
    \/ \E w \in Workers : writer_loop(w)

Spec == Init /\ [][Next]_vars

\* The configuration call on its own, from every set of existing directories.
InitConfig ==
    /\ InitWriter
    /\ existing \in SUBSET Dirs
    /\ conf = NoConf
    /\ InitAnsiIdle
    /\ InitLoggersIdle

NextConfig ==
    \/ \E c \in Callers : set_dump_location(c)

SpecConfig == InitConfig /\ [][NextConfig]_vars

\* escape_ansi on its own, from every text of the bounded alphabet.
InitStrip ==
    /\ InitWriter
    /\ InitConfigIdle
    /\ ansi \in { [NoAnsi EXCEPT !.stage = "text", !.text = t] : t \in Texts }
    /\ InitLoggersIdle

NextStrip ==
    \/ escape_text
    \/ escape_again

SpecStrip == InitStrip /\ [][NextStrip]_vars

\* The loggers on their own, from every content of the callers' sets.
InitLoggers ==
    /\ InitWriter
    /\ InitConfigIdle
    /\ InitAnsiIdle
    /\ heap \in { hp \in [SetObjects -> SUBSET ArgLevels] :
                     \A g \in Loggers : hp[OwnSet(g)] = {} }
    /\ loggers = NoLoggers

NextLoggers ==
    \/ \E g \in Loggers : logger_init(g)
    \/ \E g \in Loggers : logger_enable(g)
    \/ \E g \in Loggers : logger_disable(g)
    \/ \E g \in Loggers : set_levels(g)

SpecLoggers == InitLoggers /\ [][NextLoggers]_vars

TypeOK ==
    /\ active_levels \subseteq LogToFileLevel
    /\ should_dump \in BOOLEAN
    /\ writer_running \in BOOLEAN
    /\ writer_thread \in Workers \cup {None}
    /\ writer_file \in Handles \cup {None}
    /\ writer_lock \in Callers \cup {None} \cup { -w : w \in Workers }
    /\ open_handles \subseteq Handles
    /\ \A i \in 1..Len(file) : file[i] \in Lines
    /\ \A c \in Callers : exc[c] \in {"none", "AttributeError", "RuntimeError", "OSError",
                                       "AssertionError"}
    /\ \A w \in Workers : wpc[w] \in {"unborn", "created", "dead"} \/ is_alive(w)

\* Because cls._writer_queue never resolves, the Queue object is never
\* touched: nothing is enqueued, and no worker reaches a write.
QueueNeverUsed ==
    /\ writer_queue = << >>
    /\ \A w \in Workers : wpc[w] \notin {"write", "fb_lock", "fb_write", "close"}

\* ------------------------------------------------------------------ claims
Alive == { w \in Workers : is_alive(w) }

Spawned == { w \in Workers : wpc[w] # "unborn" }

Quiescent ==
    /\ \A c \in Callers : pc[c] = "idle"
    /\ ~writer_running
    /\ Alive = {}

RECURSIVE Ascending(_)
Ascending(S) ==
    IF S = {} THEN << >>
    ELSE LET m == CHOOSE x \in S : \A y \in S : x <= y
         IN << m >> \o Ascending(S \ {m})

\* The lines caller c submitted while it saw the writer running, in the
\* order it submitted them (lines are numbered in the order of their calls).
RunLines(c) == { l \in hist.saw_running : hist.owner[l] = c }

\* A line that is queued, held by a worker, or still carried by its caller.
OnItsWay(l) ==
    \/ InSeq(l, writer_queue)
    \/ \E w \in Workers : witem[w] = l /\ wpc[w] \in {"write", "fb_lock", "fb_write"}
    \/ \E c \in Callers :
          /\ cur[c].line = l
          /\ pc[c] \in {"log_put", "log_lock", "log_open", "log_write"}

\* C1: a caller runs start(), logs K lines that pass the gate and calls
\* stop(); once stop has returned and the worker has exited, the lines added
\* to the file since start returned are exactly those K lines, and the
\* handle the start opened is not closed while one of them is unwritten.
C1_DrainOnStop ==
    LET cy == hist.cycle IN
    ~hist.io_failed =>
       /\ (cy.st = "stopped" /\ Alive = {}) =>
             SubSeq(file, cy.mark + 1, Len(file)) = cy.lines
       /\ (cy.st # "none" /\ cy.handle # None /\ cy.handle \notin open_handles) =>
             \A i \in 1..Len(cy.lines) : InSeq(cy.lines[i], file)

\* C2: absent I/O failure, no line that passed the gate is lost: when every
\* call has returned, the writer is stopped and no worker is left, every
\* accepted line is in the file.
C2_NoSilentDrop ==
    (Quiescent /\ ~hist.io_failed) =>
       \A l \in hist.accepted : InSeq(l, file)

\* C3: the lines one producer submitted while the writer was running are in
\* the file in submission order: those written are the first of them, in
\* order, and the others are still on their way to the file.
C3_FifoOrder ==
    ~hist.io_failed =>
       \A c \in Callers :
          LET sub == Ascending(RunLines(c))
              Mine(l) == l \in RunLines(c)
              written == SelectSeq(file, Mine)
          IN /\ Len(written) <= Len(sub)
             /\ written = SubSeq(sub, 1, Len(written))
             /\ \A i \in (Len(written) + 1)..Len(sub) : OnItsWay(sub[i])

\* C4: while no stop has been called, start() calls on the stopped writer,
\* however they overlap, spawn one worker and open the file once.
C4_OneStartProceeds ==
    hist.n_stops = 0 =>
       /\ Cardinality(Spawned) <= 1
       /\ hist.n_opened <= 1

\* C5: at most one worker thread is alive.
C5_SingleWorker == Cardinality(Alive) <= 1

\* C7: no log call ends by raising an I/O error to its caller.
C7_LogNeverRaises == \A l \in Lines : hist.line_exc[l] # "OSError"

\* C8: a stop() begun on a stopped writer and a start() begun on a running
\* writer, while no other call is in progress, leave RunState, the persist
\* flag, the queue, the worker thread and the file handle as they were.
C8_IdempotentLifecycle ==
    [][\A c \in Callers :
          /\ pc[c] = "idle"
          /\ OthersIdle(c)
          /\ \/ pc'[c] = "st_check" /\ ~writer_running
             \/ pc'[c] = "sl_check" /\ writer_running
          => UNCHANGED << writer_running, should_dump, writer_queue,
                          writer_thread, writer_file, wpc >>]_vars

\* C9: a log call that finds its level outside the active levels, or the
\* persist flag false, never reaches _log: its line is neither enqueued nor
\* written, and it raises nothing.
C9_Gating ==
    \A l \in hist.rejected :
       /\ ~InSeq(l, file)
       /\ ~InSeq(l, writer_queue)
       /\ \A w \in Workers : witem[w] # l
       /\ hist.line_exc[l] = "none"
       /\ \A c \in Callers :
             cur[c].line = l =>
                pc[c] \notin {"gate_dump", "log_check", "log_put", "log_lock",
                              "log_open", "log_write"}

\* C9 witness: with the writer running and the persist flag on, a call at a
\* level that was disabled before it began has returned.
C9_GatedWhileRunning ==
    \E l \in hist.rejected :
       /\ writer_running
       /\ should_dump
       /\ \E c \in Callers :
             cur[c].line = l /\ pc[c] = "idle" /\ cur[c].level \notin active_levels

\* C11: a set_dump_location call with a directory that does not exist raises
\* to its caller and leaves the dump path as it was; a call with a directory
\* that exists raises nothing and sets the dump path to
\* <directory>/<file name>.log.
C11_ConfigureFailsFast ==
    conf.called =>
        IF conf.existed
        THEN /\ ~conf.raised
             /\ exc[conf.caller] = "none"
             /\ dump_path = conf.directory \o << "/" >> \o conf.file_name \o << ".log" >>
        ELSE /\ conf.raised
             /\ exc[conf.caller] = "AssertionError"
             /\ dump_path = conf.before

\* C11 witness: a call with a missing directory has raised after an earlier call had moved
\* the dump path away from its default.
C11_RejectedAfterConfigured ==
    /\ conf.called
    /\ ~conf.existed
    /\ conf.raised
    /\ dump_path # DefaultDumpPath

\* C12: escape_ansi is idempotent and complete: applying it to its own result
\* changes nothing, and its result holds no sequence the pattern matches.
C12_StripIdempotentComplete ==
    ansi.stage = "twice" =>
        /\ ansi.twice = ansi.once
        /\ ~HasEscape(ansi.once)

InStop(c) == pc[c] \in {"st_check", "st_flag", "st_sentinel", "st_read", "st_join", "st_clear"}

C14_RunningHasWorker ==
    (/\ writer_running
     /\ atexit_hooks > 0
     /\ \A c \in Callers : pc[c] = "idle") => Alive # {}

\* C15: after a start(), its stop() and no later call, once the worker has
\* left its loop the handle that start opened is closed and the cached
\* reference is cleared.
C15_WorkerShutdownCloses ==
    LET cy == hist.cycle IN
    (cy.st = "stopped" /\ Alive = {}) =>
       /\ writer_file = None
       /\ cy.handle \notin open_handles

\* C16: from the open of the cached handle by a start() until the next
\* stop() is called, no step closes the handle, clears the reference to it
\* or replaces it.
C16_HandleLifetime ==
    [][(writer_file # None /\ ~hist.stop_since_open) =>
          /\ writer_file' = writer_file
          /\ writer_file \in open_handles']_vars

C20_PerLoggerLevels ==
    [][\A g \in Loggers :
          /\ (loggers[g].ref = None /\ loggers'[g].ref # None /\ ~loggers'[g].by_default) =>
                \A l \in Level :
                   IsEnabledIn(heap', loggers', g, l) <=> l \in loggers'[g].given
          /\ (loggers[g].ref # None /\ ~loggers'[g].acted) =>
                \A l \in Level :
                   IsEnabledIn(heap', loggers', g, l) <=> is_enabled(g, l)]_vars

\* C20, second half alone: a call on one logger changes is_enabled of no
\* other logger.
C20_LoggersIndependent ==
    [][\A g \in Loggers :
          (loggers[g].ref # None /\ ~loggers'[g].acted) =>
             \A l \in Level :
                IsEnabledIn(heap', loggers', g, l) <=> is_enabled(g, l)]_vars

====
